---- MODULE Spec2Model ----
(***************************************************************************)
(* Model of the job scheduler (SchedulerService), the backup executor      *)
(* (BackupService.create_backup / _perform_backup) and the two retention   *)
(* sweeps (BackupService._cleanup_old_backups and                          *)
(* StorageService.cleanup_old_backups) of sql-backup-system.               *)
(*                                                                         *)
(* Everything runs on one asyncio event loop: a coroutine runs atomically  *)
(* from one suspension point to the next.  The database driver (pyodbc),   *)
(* the ORM session and the Dropbox client are synchronous, so the only     *)
(* suspension point of an execution is the SMTP send of a notification.    *)
(* Time is counted in minutes.                                             *)
(***************************************************************************)
EXTENDS Integers, Sequences, FiniteSets, TLC

\* ---------------------------------------------------------------- bounds
NJobs == 2
MaxExec == 2
MaxBackups == 6

Jobs == 1..NJobs
NoTime == -1

Days(n) == n * 24 * 60

\* ScheduleFrequency, and the days _schedule_job passes for each value.
Frequencies == {"daily", "weekly", "monthly"}

IntervalDays(f) == CASE f = "daily" -> 1 [] f = "weekly" -> 7 [] f = "monthly" -> 30

\* timedelta(minutes=5): the delay of a first or an overdue run.
SoonMinutes == 5

\* _get_next_run_time without the test for an overdue run.
GetNextRunTimeNoCatchUp(last, t, days) ==
    IF last # NoTime THEN last + Days(days) ELSE t + SoonMinutes

\* _get_next_run_time that ignores last_run.
GetNextRunTimeAlwaysSoon(last, t, days) == t + SoonMinutes

\* _get_next_run_time, for a job whose last_run is last, called at time t.
GetNextRunTime(last, t, days) ==
    IF last # NoTime
    THEN IF last + Days(days) < t THEN t + SoonMinutes ELSE last + Days(days)
    ELSE t + SoonMinutes

VARIABLES
    now,            \* datetime.utcnow(), in minutes
    is_active,      \* BackupJob.is_active, per job
    next_run,       \* BackupJob.next_run as stored (NoTime: NULL)
    last_run,       \* BackupJob.last_run as stored (NoTime: NULL)
    retention_days, \* BackupJob.retention_days
    frequency,      \* BackupJob.frequency
    running_jobs,   \* SchedulerService.running_jobs: the dict's entries in insertion order
    stop_flag,      \* SchedulerService.stop_flag
    loop_running,   \* the coroutine start() has not left its while loop
    stop_pc,        \* position of the coroutine stop()
    stop_size,      \* size of running_jobs when stop() created its iterator
    stop_pos,       \* index of the entry stop() has reached
    stop_task,      \* the task stop() is awaiting
    stop_seen,      \* the tasks in running_jobs when stop() was called (history)
    tasks,          \* every execution started so far: scheduler tasks and run-now calls
    backups,        \* the backups table, in insertion order
    remote,         \* ids of the backups whose artifact is in cloud storage
    local,          \* ids of the backups whose artifact is on the local disk
    flaky,          \* cloud storage may fail to delete (fixed in a behaviour)
    db_flaky,       \* the job store may fail a commit (fixed in a behaviour)
    scheduled,      \* per job, the last call of _schedule_job: when it ran, the
                    \* last_run it read and the time it computed (history)
    paused,         \* the jobs pause_job was called for since their last resume_job (history)
    last_op         \* the operation performed by the last step (history)

vars == <<now, is_active, next_run, last_run, retention_days, frequency, running_jobs,
          stop_flag, loop_running, stop_pc, stop_size, stop_pos, stop_task, stop_seen,
          tasks,
          backups, remote, local, flaky, db_flaky, scheduled, paused, last_op>>

jobvars == <<is_active, next_run, last_run, retention_days, frequency, flaky, db_flaky>>
stopvars == <<stop_flag, stop_pc, stop_size, stop_pos, stop_task, stop_seen>>
storevars == <<backups, remote, local>>

\* ------------------------------------------------------- the running_jobs dict
\* A deleted entry leaves a hole in the dict's entry array; the hole matters
\* only to an iterator that is alive, i.e. while stop() is suspended in its loop.
Tomb == [job |-> 0, task |-> 0]

Iterating == stop_pc = "awaiting"

DictHas(d, j) == \E i \in 1..Len(d) : d[i].job = j

DictIdx(d, j) == CHOOSE i \in 1..Len(d) : d[i].job = j

DictGet(d, j) == d[DictIdx(d, j)].task

DictSize(d) == Cardinality({i \in 1..Len(d) : d[i] # Tomb})

Compact(d) == SelectSeq(d, LAMBDA x : x # Tomb)

DictDel(d, j) ==
    IF ~DictHas(d, j) THEN d
    ELSE IF Iterating THEN [d EXCEPT ![DictIdx(d, j)] = Tomb]
    ELSE SelectSeq(d, LAMBDA x : x.job # j)

DictSet(d, j, t) ==
    IF DictHas(d, j) THEN [d EXCEPT ![DictIdx(d, j)].task = t]
    ELSE Append(d, [job |-> j, task |-> t])

\* ------------------------------------------------------------------ tasks
Final == {"done", "cancelled"}
Suspended == {"notify_ok", "notify_fail1", "notify_fail2"}

Alive(t) == t.pc \notin Final

NewTask(j, kind, pc) == [job |-> j, kind |-> kind, pc |-> pc, cancel |-> FALSE, backup |-> 0]

\* asyncio.Task.cancel(): a request; it has no effect on a task that is done.
CancelTask(ts, t) == IF Alive(ts[t]) THEN [ts EXCEPT ![t].cancel = TRUE] ELSE ts


\* ------------------------------------------------------------ the job store
\* The query without its comparison of next_run with the current time.
DueJobsUnsetOnly == {j \in Jobs : is_active[j] /\ next_run[j] = NoTime}

\* _schedule_pending_jobs' query: active jobs whose next_run is NULL or has passed.
DueJobs == {j \in Jobs : is_active[j] /\ (next_run[j] = NoTime \/ next_run[j] <= now)}

JobRows(rows, j) == {i \in 1..Len(rows) : rows[i].job = j}

Terminal == {"completed", "failed"}

\* ------------------------------------------------------------- retention
\* BackupService._cleanup_old_backups' query, on the committed rows.
AutoSweepCandidates(rows, j) ==
    {i \in JobRows(rows, j) : /\ rows[i].status = "completed"
                              /\ rows[i].created_at < now - Days(retention_days[j])}

\* Its loop: files_delete_v2 raises for the candidates in fails and for a path
\* that is no longer in cloud storage, which skips the rest of that iteration;
\* otherwise the remote and the local artifact go, and the assignment of
\* BackupStatus.DELETED, which the enum does not declare, raises before the
\* commit: the row stays as it was.
AutoSweepDeleted(rows, j, fails) ==
    {i \in AutoSweepCandidates(rows, j) : i \in remote /\ i \notin fails}

\* StorageService.cleanup_old_backups: all rows of the job, newest first, the
\* first one skipped, the others selected when timedelta.days exceeds the window.
Newest(rows, j) == CHOOSE i \in JobRows(rows, j) : \A k \in JobRows(rows, j) : k <= i

ManualCandidates(rows, j) ==
    IF JobRows(rows, j) = {} THEN {}
    ELSE {i \in JobRows(rows, j) \ {Newest(rows, j)} :
            (now - rows[i].created_at) \div Days(1) > retention_days[j]}

\* The candidates its loop reaches, newest first: os.remove is inside no try
\* statement of the loop, so when it raises for candidate lfail (0: for none)
\* the try statement around the whole function ends the sweep there.
ManualReached(rows, j, lfail) ==
    {i \in ManualCandidates(rows, j) : lfail = 0 \/ i >= lfail}

\* delete_backup returns False instead of raising, so the local file goes too.
ManualRemoteDeleted(rows, j, fails, lfail) ==
    {i \in ManualReached(rows, j, lfail) : rows[i].paths /\ i \notin fails}

ManualLocalDeleted(rows, j, lfail) ==
    {i \in ManualReached(rows, j, lfail) : rows[i].paths /\ i # lfail}

\* The deletions that fail in one sweep: any, when cloud storage is flaky.
FailChoices(cands) == IF flaky THEN SUBSET cands ELSE {{}}

\* The candidate whose local file os.remove fails to delete, 0 for none: any
\* candidate with a local file, when the storage is flaky.
LocalFailChoices(cands) == IF flaky THEN {0} \cup (cands \cap local) ELSE {0}

\* ---------------------------------------------------------- the executor
Outcomes == {"ok", "fail_adapter", "fail_post"}

NewRow(j) ==
    [job |-> j, status |-> "in_progress", created_at |-> now, paths |-> FALSE,
     error |-> "none", completed_at |-> NoTime, log |-> <<"pending", "in_progress">>,
     sent_ok |-> 0, sent_fail |-> 0]

\* The commit of the fields _perform_backup set on success.
CommitCompleted(row) ==
    [row EXCEPT !.status = "completed", !.paths = TRUE, !.completed_at = row.created_at]

\* _handle_backup_error without its assignment of completed_at.
HandleErrorNoTimestamp(row) ==
    [row EXCEPT !.status = "failed", !.error = "adapter", !.log = Append(@, "failed"),
                !.paths = (row.log[Len(row.log)] = "completed") \/ @,
                !.sent_fail = @ + 1]

\* _handle_backup_error: FAILED, the message and completed_at, committed
\* together with whatever the session still holds; then the call of
\* send_backup_failure_notification, counted in sent_fail (sent_ok counts the
\* calls of send_backup_success_notification).
HandleError(row) ==
    [row EXCEPT !.status = "failed", !.error = "adapter", !.log = Append(@, "failed"),
                !.completed_at = now,
                !.paths = (row.log[Len(row.log)] = "completed") \/ @,
                !.sent_fail = @ + 1]

\* The commit in _perform_backup's finally block, after a run that set
\* COMPLETED, and how it goes:
\*   "ok":          the commit succeeds;
\*   "fail_commit": it raises and the session is rolled back; create_backup's
\*                  handler then sets FAILED, the message and completed_at,
\*                  and its commit succeeds;
\*   "fail_store":  it raises, and so does the commit of the handler.
\* The query of _schedule_pending_jobs: it raises when the store is
\* unavailable. The function has a finally clause and no except clause, and
\* start() calls it in no try statement: the exception ends start().
QueryChoices == IF db_flaky THEN {"ok", "raise"} ELSE {"ok"}

CommitChoices == IF db_flaky THEN {"ok", "fail_commit", "fail_store"} ELSE {"ok"}

FinallyCommit(row, c) ==
    CASE c = "ok" -> CommitCompleted(row)
      [] c = "fail_commit" ->
            [row EXCEPT !.status = "failed", !.error = "store", !.completed_at = now,
                        !.log = Append(@, "failed"), !.sent_fail = @ + 1]
      [] c = "fail_store" -> [row EXCEPT !.log = Append(@, "failed")]

\* _perform_backup with the sweep moved into its finally clause: it runs
\* whatever the outcome of the attempt.
FirstStepSweepAlways(j, out, s, fails, c) ==
    LET b == Len(backups) + 1
        D == AutoSweepDeleted(backups, j, fails)
        done == [NewRow(j) EXCEPT !.log = Append(@, "completed"), !.sent_ok = 1]
        bad == HandleError(IF out = "fail_post" THEN done ELSE NewRow(j))
    IN  IF out = "ok"
        THEN [pc |-> IF s THEN "notify_ok" ELSE "done",
              backups |-> Append(backups, IF s THEN done ELSE FinallyCommit(done, c)),
              remote |-> (remote \cup {b}) \ D,
              local |-> (local \cup {b}) \ D]
        ELSE [pc |-> IF s THEN "notify_fail1" ELSE "done",
              backups |-> Append(backups, IF s THEN bad ELSE HandleError(bad)),
              remote |-> IF out = "fail_post" THEN (remote \cup {b}) \ D ELSE remote \ D,
              local |-> IF out = "fail_post" THEN (local \cup {b}) \ D ELSE local \ D]

\* create_backup up to its first suspension point, for job j: the row is
\* inserted PENDING and committed, set IN_PROGRESS and committed, then
\*   out = "fail_adapter": connecting, BACKUP DATABASE or the upload raises;
\*   out = "ok":           COMPLETED and the paths are set on the session's
\*                         object, the sweep runs, the success notification
\*                         is sent;
\*   out = "fail_post":    as "ok", but the notification raises before it
\*                         sends, and the handlers run as for a failure.
\* On a failure _perform_backup's handler runs, then create_backup's handler,
\* each with its failure notification. s: the user's notification settings
\* let the notifications be sent, and each one suspends in the SMTP send.
\* c: how the commit of the finally block goes when it is reached in this step.
FirstStep(j, out, s, fails, c) ==
    LET b == Len(backups) + 1
        D == AutoSweepDeleted(backups, j, fails)
        done == [NewRow(j) EXCEPT !.log = Append(@, "completed"), !.sent_ok = 1]
        bad == HandleError(IF out = "fail_post" THEN done ELSE NewRow(j))
    IN  IF out = "ok"
        THEN [pc |-> IF s THEN "notify_ok" ELSE "done",
              backups |-> Append(backups, IF s THEN done ELSE FinallyCommit(done, c)),
              remote |-> (remote \cup {b}) \ D,
              local |-> (local \cup {b}) \ D]
        ELSE [pc |-> IF s THEN "notify_fail1" ELSE "done",
              backups |-> Append(backups, IF s THEN bad ELSE HandleError(bad)),
              remote |-> IF out = "fail_post" THEN (remote \cup {b}) \ D ELSE remote,
              local |-> IF out = "fail_post" THEN (local \cup {b}) \ D ELSE local]

\* _run_backup with a finally clause that clears running_jobs.
ReleaseAll(d, t) == IF t.kind = "sched" THEN <<>> ELSE d

\* _run_backup without the removal of the entry.
ReleaseNothing(d, t) == d

\* _run_backup's finally: the entry of the job goes, whichever task it names.
Release(d, t) == IF t.kind = "sched" THEN DictDel(d, t.job) ELSE d

\* -------------------------------------------------------- the scheduler
\* last_op keeps the operations the properties below speak of.
Recorded == {"pause", "reschedule", "cleanup", "sweep", "stop", "stop_step", "poll_raised", "run_unknown"}

\* The step of an execution of job j that went on to its sweep, when the
\* sweep had something to delete: what last_op keeps of it.
ExecOp(j, out) ==
    IF out = "ok" /\ AutoSweepCandidates(backups, j) \cap remote # {} THEN "sweep" ELSE "exec"

Op(name, j, arg) ==
    IF name \in Recorded THEN [op |-> name, job |-> j, arg |-> arg]
    ELSE [op |-> "other", job |-> 0, arg |-> {}]

\* No call of _schedule_job yet.
NotScheduled == [at |-> NoTime, last |-> NoTime, value |-> NoTime]

\* _schedule_job: next_run is assigned on an object of the caller's session
\* and the commit is issued on a fresh, empty session, so the stored next_run
\* is untouched; then the task is created and entered in running_jobs.
ScheduleJob(st, j) ==
    [tasks |-> Append(st.tasks, NewTask(j, "sched", "created")),
     rj |-> DictSet(st.rj, j, Len(st.tasks) + 1),
     sch |-> [st.sch EXCEPT ![j] =
                [at |-> now, last |-> last_run[j],
                 value |-> GetNextRunTime(last_run[j], now, IntervalDays(frequency[j]))]]]

RECURSIVE ScheduleAll(_, _)
ScheduleAll(st, js) ==
    IF js = {} THEN st
    ELSE LET j == CHOOSE x \in js : \A y \in js : x <= y
         IN  ScheduleAll(ScheduleJob(st, j), js \ {j})

\* A cycle of a loop that does not test stop_flag.
SchedulePendingJobsIgnoringStop ==
    /\ loop_running
    /\ \E q \in QueryChoices :
         LET todo == IF q = "ok" THEN {j \in DueJobs : ~DictHas(running_jobs, j)} ELSE {}
             st == ScheduleAll([tasks |-> tasks, rj |-> running_jobs, sch |-> scheduled], todo)
         IN  /\ Len(tasks) + Cardinality(todo) <= MaxExec
             /\ tasks' = st.tasks
             /\ running_jobs' = st.rj
             /\ scheduled' = st.sch
             /\ loop_running' = (q = "ok")
             /\ last_op' = Op(IF q = "ok" THEN "poll" ELSE "poll_raised", 0, todo)
    /\ UNCHANGED <<now, jobvars, paused, stopvars, storevars>>

\* One cycle of start()'s loop: _schedule_pending_jobs.
SchedulePendingJobs ==
    /\ loop_running /\ ~stop_flag
    /\ \E q \in QueryChoices :
         LET todo == IF q = "ok" THEN {j \in DueJobs : ~DictHas(running_jobs, j)} ELSE {}
             st == ScheduleAll([tasks |-> tasks, rj |-> running_jobs, sch |-> scheduled], todo)
         IN  /\ Len(tasks) + Cardinality(todo) <= MaxExec
             /\ tasks' = st.tasks
             /\ running_jobs' = st.rj
             /\ scheduled' = st.sch
             /\ loop_running' = (q = "ok")
             /\ last_op' = Op(IF q = "ok" THEN "poll" ELSE "poll_raised", 0, todo)
    /\ UNCHANGED <<now, jobvars, paused, stopvars, storevars>>

\* start() wakes up with stop_flag set and leaves its loop.
LoopExit ==
    /\ loop_running /\ stop_flag
    /\ loop_running' = FALSE
    /\ last_op' = Op("loop_exit", 0, {})
    /\ UNCHANGED <<now, jobvars, scheduled, paused, stopvars, running_jobs, tasks, storevars>>

\* reschedule_job without the cancellation and removal of the job's entry.
RescheduleJobNoCancel(j) ==
    /\ IF is_active[j]
       THEN LET st == ScheduleJob([tasks |-> tasks, rj |-> running_jobs, sch |-> scheduled], j)
            IN  /\ Len(tasks) < MaxExec
                /\ tasks' = st.tasks
                /\ running_jobs' = st.rj
                /\ scheduled' = st.sch
       ELSE UNCHANGED <<tasks, running_jobs, scheduled>>
    /\ last_op' = Op("reschedule", j, {})
    /\ UNCHANGED <<now, jobvars, paused, stopvars, loop_running, storevars>>

RescheduleJob(j) ==
    /\ IF is_active[j]
       THEN LET had == DictHas(running_jobs, j)
                ts == IF had THEN CancelTask(tasks, DictGet(running_jobs, j)) ELSE tasks
                d == DictDel(running_jobs, j)
                st == ScheduleJob([tasks |-> ts, rj |-> d, sch |-> scheduled], j)
            IN  /\ Len(tasks) < MaxExec
                /\ tasks' = st.tasks
                /\ running_jobs' = st.rj
                /\ scheduled' = st.sch
       ELSE UNCHANGED <<tasks, running_jobs, scheduled>>
    /\ last_op' = Op("reschedule", j, {})
    /\ UNCHANGED <<now, jobvars, paused, stopvars, loop_running, storevars>>

\* pause_job without its del statement.
PauseJobKeepsEntry(j) ==
    /\ IF DictHas(running_jobs, j)
       THEN /\ tasks' = CancelTask(tasks, DictGet(running_jobs, j))
            /\ last_op' = Op("pause", j, {DictGet(running_jobs, j)})
       ELSE /\ UNCHANGED tasks
            /\ last_op' = Op("pause", j, {})
    /\ paused' = paused \cup {j}
    /\ UNCHANGED <<now, jobvars, scheduled, stopvars, loop_running, storevars, running_jobs>>

PauseJob(j) ==
    /\ IF DictHas(running_jobs, j)
       THEN /\ tasks' = CancelTask(tasks, DictGet(running_jobs, j))
            /\ running_jobs' = DictDel(running_jobs, j)
            /\ last_op' = Op("pause", j, {DictGet(running_jobs, j)})
       ELSE /\ UNCHANGED <<tasks, running_jobs>>
            /\ last_op' = Op("pause", j, {})
    /\ paused' = paused \cup {j}
    /\ UNCHANGED <<now, jobvars, scheduled, stopvars, loop_running, storevars>>

\* resume_job without the test of is_active.
ResumeJobAnyJob(j) ==
    /\ IF ~DictHas(running_jobs, j)
       THEN LET st == ScheduleJob([tasks |-> tasks, rj |-> running_jobs, sch |-> scheduled], j)
            IN  /\ Len(tasks) < MaxExec
                /\ tasks' = st.tasks
                /\ running_jobs' = st.rj
                /\ scheduled' = st.sch
       ELSE UNCHANGED <<tasks, running_jobs, scheduled>>
    /\ paused' = paused \ {j}
    /\ last_op' = Op("resume", j, {})
    /\ UNCHANGED <<now, jobvars, stopvars, loop_running, storevars>>

ResumeJob(j) ==
    /\ IF is_active[j] /\ ~DictHas(running_jobs, j)
       THEN LET st == ScheduleJob([tasks |-> tasks, rj |-> running_jobs, sch |-> scheduled], j)
            IN  /\ Len(tasks) < MaxExec
                /\ tasks' = st.tasks
                /\ running_jobs' = st.rj
                /\ scheduled' = st.sch
       ELSE UNCHANGED <<tasks, running_jobs, scheduled>>
    /\ paused' = paused \ {j}
    /\ last_op' = Op("resume", j, {})
    /\ UNCHANGED <<now, jobvars, stopvars, loop_running, storevars>>

\* The administrative surface sets BackupJob.is_active.
SetActive(j, b) ==
    /\ is_active[j] # b
    /\ is_active' = [is_active EXCEPT ![j] = b]
    /\ last_op' = Op("set_active", j, {})
    /\ UNCHANGED <<now, next_run, last_run, retention_days, frequency, flaky, db_flaky,
                   running_jobs,
                   stopvars, scheduled, paused,
                   loop_running, tasks, storevars>>

\* -------------------------------------------------- steps of an execution
\* The first step of a scheduler task that was not cancelled before it ran:
\* create_backup from its lookup to the first await that suspends, or to the
\* end of _run_backup.
ExecFirstStep(e) ==
    /\ Len(backups) < MaxBackups
    /\ \E out \in Outcomes, s \in BOOLEAN, c \in CommitChoices,
          fails \in FailChoices(AutoSweepCandidates(backups, tasks[e].job)) :
         LET r == FirstStep(tasks[e].job, out, s, fails, c)
         IN  /\ tasks' = [tasks EXCEPT ![e].pc = r.pc, ![e].backup = Len(backups) + 1]
             /\ backups' = r.backups
             /\ remote' = r.remote
             /\ local' = r.local
             /\ running_jobs' = IF r.pc = "done" THEN Release(running_jobs, tasks[e])
                                ELSE running_jobs
             /\ last_op' = Op(ExecOp(tasks[e].job, out), tasks[e].job, fails)
    /\ UNCHANGED <<now, jobvars, scheduled, paused, stopvars, loop_running>>

TaskStart(e) ==
    /\ tasks[e].kind = "sched" /\ tasks[e].pc = "created" /\ ~tasks[e].cancel
    /\ ExecFirstStep(e)

\* run_backup_job: the handler awaits create_backup itself; the attribute
\* execute_backup it reads afterwards does not exist, so nothing else runs.
RunNow(j) ==
    /\ Len(tasks) < MaxExec /\ Len(backups) < MaxBackups
    /\ \E out \in Outcomes, s \in BOOLEAN, c \in CommitChoices,
          fails \in FailChoices(AutoSweepCandidates(backups, j)) :
         LET r == FirstStep(j, out, s, fails, c)
         IN  /\ tasks' = Append(tasks, [NewTask(j, "manual", r.pc) EXCEPT
                                           !.backup = Len(backups) + 1])
             /\ backups' = r.backups
             /\ remote' = r.remote
             /\ local' = r.local
             /\ last_op' = Op(ExecOp(j, out), j, fails)
    /\ UNCHANGED <<now, jobvars, scheduled, paused, stopvars, loop_running, running_jobs>>

\* Ids of no BackupJob row.
UnknownJobs == {NJobs + 1}

\* The status of the HTTPException run_backup_job raises for any exception.
HTTP_400_BAD_REQUEST == 400

\* run_backup_job for an id of no job: the lookup of create_backup finds no
\* row and raises ValueError before a Backup is created; the handler turns
\* every exception into the same HTTPException.
RunNowUnknown(j) ==
    /\ j \in UnknownJobs
    /\ last_op' = Op("run_unknown", j, {HTTP_400_BAD_REQUEST})
    /\ UNCHANGED <<now, jobvars, scheduled, paused, stopvars, loop_running, running_jobs,
                   tasks, storevars>>

\* The SMTP send returns (or fails: _send_email swallows it).
TaskResume(e) ==
    /\ tasks[e].pc \in Suspended /\ ~tasks[e].cancel
    /\ LET t == tasks[e]
           b == t.backup
       IN  \/ /\ t.pc = "notify_ok"
              /\ \E c \in CommitChoices :
                   /\ backups' = [backups EXCEPT ![b] = FinallyCommit(@, c)]
                   /\ IF c = "fail_commit"
                      THEN /\ tasks' = [tasks EXCEPT ![e].pc = "notify_fail2"]
                           /\ UNCHANGED running_jobs
                      ELSE /\ tasks' = [tasks EXCEPT ![e].pc = "done"]
                           /\ running_jobs' = Release(running_jobs, t)
           \/ /\ t.pc = "notify_fail1"
              /\ backups' = [backups EXCEPT ![b] = HandleError(@)]
              /\ tasks' = [tasks EXCEPT ![e].pc = "notify_fail2"]
              /\ UNCHANGED running_jobs
           \/ /\ t.pc = "notify_fail2"
              /\ tasks' = [tasks EXCEPT ![e].pc = "done"]
              /\ running_jobs' = Release(running_jobs, t)
              /\ UNCHANGED backups
    /\ last_op' = Op("exec_end", tasks[e].job, {})
    /\ UNCHANGED <<now, jobvars, scheduled, paused, stopvars, loop_running, remote, local>>

\* The task runs with a cancellation requested: CancelledError is thrown in at
\* its suspension point. It is no Exception, so no handler runs; the finally
\* blocks do: _perform_backup's commit, _run_backup's removal of the entry. A
\* task that never ran has no finally block to run.
TaskCancelled(e) ==
    /\ Alive(tasks[e]) /\ tasks[e].cancel
    /\ LET t == tasks[e]
       IN  /\ tasks' = [tasks EXCEPT ![e].pc = "cancelled", ![e].cancel = FALSE]
           /\ backups' = IF t.pc = "notify_ok"
                         THEN [backups EXCEPT ![t.backup] = CommitCompleted(@)]
                         ELSE backups
           /\ running_jobs' = IF t.pc = "created" THEN running_jobs
                              ELSE Release(running_jobs, t)
    /\ last_op' = Op("exec_cancelled", tasks[e].job, {})
    /\ UNCHANGED <<now, jobvars, scheduled, paused, stopvars, loop_running, remote, local>>

\* ---------------------------------------------------------------- stop()
\* stop() up to its first suspension: the flag, the iterator over
\* running_jobs.items(), the first task cancelled and awaited.
StopBegin ==
    /\ stop_pc = "idle"
    /\ stop_flag' = TRUE
    /\ stop_seen' = {running_jobs[i].task : i \in 1..Len(running_jobs)}
    /\ IF Len(running_jobs) = 0
       THEN /\ stop_pc' = "returned"
            /\ UNCHANGED <<running_jobs, tasks, stop_size, stop_pos, stop_task>>
       ELSE /\ stop_pc' = "awaiting"
            /\ stop_size' = Len(running_jobs)
            /\ stop_pos' = 1
            /\ stop_task' = running_jobs[1].task
            /\ tasks' = CancelTask(tasks, running_jobs[1].task)
            /\ UNCHANGED running_jobs
    /\ last_op' = Op("stop", 0, {})
    /\ UNCHANGED <<now, jobvars, scheduled, paused, loop_running, storevars>>

NextEntry(d, pos) == {i \in (pos + 1)..Len(d) : d[i] # Tomb}

\* The awaited task is done: the for statement asks the iterator for the next
\* item. A dict whose size changed since the iterator was made raises
\* RuntimeError out of stop(); otherwise the next task is cancelled and
\* awaited, or the loop ends and running_jobs is cleared.
StopResume ==
    /\ stop_pc = "awaiting"
    /\ ~Alive(tasks[stop_task])
    /\ IF DictSize(running_jobs) # stop_size
       THEN /\ stop_pc' = "raised"
            /\ running_jobs' = Compact(running_jobs)
            /\ stop_pos' = 0 /\ stop_task' = 0 /\ stop_size' = 0
            /\ UNCHANGED tasks
       ELSE IF NextEntry(running_jobs, stop_pos) = {}
       THEN /\ stop_pc' = "returned"
            /\ running_jobs' = <<>>
            /\ stop_pos' = 0 /\ stop_task' = 0 /\ stop_size' = 0
            /\ UNCHANGED tasks
       ELSE LET i == CHOOSE x \in NextEntry(running_jobs, stop_pos) :
                        \A y \in NextEntry(running_jobs, stop_pos) : x <= y
            IN  /\ stop_pos' = i
                /\ stop_task' = running_jobs[i].task
                /\ tasks' = CancelTask(tasks, running_jobs[i].task)
                /\ UNCHANGED <<stop_pc, stop_size, running_jobs>>
    /\ last_op' = Op("stop_step", 0, {})
    /\ UNCHANGED <<now, jobvars, scheduled, paused, stop_flag, stop_seen, loop_running, storevars>>

\* ------------------------------------------------------- manual cleanup
CleanupOldBackups(j) ==
    /\ \E fails \in FailChoices(ManualCandidates(backups, j)),
          lfail \in LocalFailChoices(ManualCandidates(backups, j)) :
         /\ remote' = remote \ ManualRemoteDeleted(backups, j, fails, lfail)
         /\ local' = local \ ManualLocalDeleted(backups, j, lfail)
         /\ last_op' = Op("cleanup", j, fails \cup ({lfail} \ {0}))
    /\ UNCHANGED <<now, jobvars, scheduled, paused, stopvars, loop_running, running_jobs, tasks, backups>>

\* ------------------------------------------------------- specification
Init ==
    /\ now = 0
    /\ is_active = [j \in Jobs |-> TRUE]
    /\ next_run = [j \in Jobs |-> IF j = 1 THEN NoTime ELSE Days(1)]
    /\ last_run = [j \in Jobs |-> NoTime]
    /\ retention_days = [j \in Jobs |-> j - 1]
    /\ frequency = [j \in Jobs |-> IF j = 1 THEN "daily" ELSE "weekly"]
    /\ flaky = FALSE
    /\ db_flaky = FALSE
    /\ running_jobs = <<>>
    /\ stop_flag = FALSE
    /\ loop_running = TRUE
    /\ stop_pc = "idle"
    /\ stop_size = 0
    /\ stop_pos = 0
    /\ stop_task = 0
    /\ stop_seen = {}
    /\ tasks = <<>>
    /\ backups = <<>>
    /\ remote = {}
    /\ local = {}
    /\ scheduled = [j \in Jobs |-> NotScheduled]
    /\ paused = {}
    /\ last_op = Op("init", 0, {})

Next ==
    \/ SchedulePendingJobs
    \/ LoopExit
    \/ \E j \in Jobs : RescheduleJob(j)
    \/ \E j \in Jobs : PauseJob(j)
    \/ \E j \in Jobs : ResumeJob(j)
    \/ \E j \in Jobs, b \in BOOLEAN : SetActive(j, b)
    \/ \E e \in 1..Len(tasks) : TaskStart(e)
    \/ \E j \in Jobs : RunNow(j)
    \/ \E e \in 1..Len(tasks) : TaskResume(e)
    \/ \E e \in 1..Len(tasks) : TaskCancelled(e)
    \/ StopBegin
    \/ StopResume

Spec == Init /\ [][Next]_vars

\* ------------------------------------------- the retention specification
\* The sweeps on a table that earlier runs left behind: up to MaxOld rows of
\* job 1, COMPLETED with both artifacts or FAILED with none, oldest first, and
\* the table of five COMPLETED backups aged 60, 50, 40, 10 and 0 days under a
\* window of 30 days.
MaxOld == 2
NowR == Days(60)
OldAges == {Days(2), Days(1) + 720, Days(1), 720}
ScenarioAges == <<60, 50, 40, 10, 0>>

OldRow(st, age) ==
    [job |-> 1, status |-> st, created_at |-> NowR - age, paths |-> st = "completed",
     error |-> IF st = "failed" THEN "adapter" ELSE "none",
     completed_at |-> NowR - age,
     log |-> IF st = "failed" THEN <<"pending", "in_progress", "failed", "failed">>
             ELSE <<"pending", "in_progress", "completed">>,
     sent_ok |-> IF st = "failed" THEN 0 ELSE 1,
     sent_fail |-> IF st = "failed" THEN 2 ELSE 0]

OldRows == {OldRow(st, age) : st \in Terminal, age \in OldAges}

OldTables ==
    UNION {{t \in [1..n -> OldRows] :
              \A i \in 1..n, k \in 1..n : i < k => t[i].created_at < t[k].created_at} :
           n \in 0..MaxOld}

ScenarioTable == [i \in 1..Len(ScenarioAges) |-> OldRow("completed", Days(ScenarioAges[i]))]

Stored(t) == {i \in 1..Len(t) : t[i].status = "completed"}

InitRetention ==
    /\ now = NowR
    /\ is_active = [j \in Jobs |-> TRUE]
    /\ next_run = [j \in Jobs |-> NoTime]
    /\ last_run = [j \in Jobs |-> NoTime]
    /\ \/ /\ backups \in OldTables
          /\ \E r \in {0, 1} : retention_days = [j \in Jobs |-> r]
       \/ /\ backups = ScenarioTable
          /\ retention_days = [j \in Jobs |-> 30]
    /\ remote = Stored(backups)
    /\ local = Stored(backups)
    /\ frequency = [j \in Jobs |-> "daily"]
    /\ flaky \in BOOLEAN
    /\ db_flaky = FALSE
    /\ running_jobs = <<>>
    /\ stop_flag = FALSE
    /\ loop_running = TRUE
    /\ stop_pc = "idle"
    /\ stop_size = 0
    /\ stop_pos = 0
    /\ stop_task = 0
    /\ stop_seen = {}
    /\ tasks = <<>>
    /\ scheduled = [j \in Jobs |-> NotScheduled]
    /\ paused = {}
    /\ last_op = Op("init", 0, {})

NextRetention ==
    \/ \E j \in Jobs : CleanupOldBackups(j)
    \/ \E j \in Jobs : RunNow(j)
    \/ \E e \in 1..Len(tasks) : TaskResume(e)

SpecRetention == InitRetention /\ [][NextRetention]_vars

\* ------------------------------------------------- the clock specification
\* The scheduler and its executions while time passes, for jobs of every
\* frequency whose last_run is unset or lies between 12 hours and 31 days
\* back; job 1 is active and due 5 minutes after the start, the other jobs are
\* inactive; the clock moves to a later instant of ClockTimes.
NowC == Days(40)
ClockTimes == {NowC + SoonMinutes, NowC + Days(1)}
LastRuns == {NoTime, NowC - 720, NowC - Days(1), NowC - Days(2), NowC - Days(7), NowC - Days(31)}

Tick ==
    /\ \E t \in ClockTimes : t > now /\ now' = t
    /\ last_op' = Op("tick", 0, {})
    /\ UNCHANGED <<jobvars, scheduled, paused, stopvars, loop_running, running_jobs, tasks,
                   storevars>>

InitClock ==
    /\ now = NowC
    /\ is_active = [j \in Jobs |-> j = 1]
    /\ next_run = [j \in Jobs |-> NowC + SoonMinutes]
    /\ \E l \in LastRuns : last_run = [j \in Jobs |-> l]
    /\ \E f \in Frequencies : frequency = [j \in Jobs |-> f]
    /\ retention_days = [j \in Jobs |-> 30]
    /\ flaky = FALSE
    /\ db_flaky = FALSE
    /\ running_jobs = <<>>
    /\ stop_flag = FALSE
    /\ loop_running = TRUE
    /\ stop_pc = "idle"
    /\ stop_size = 0
    /\ stop_pos = 0
    /\ stop_task = 0
    /\ stop_seen = {}
    /\ tasks = <<>>
    /\ backups = <<>>
    /\ remote = {}
    /\ local = {}
    /\ scheduled = [j \in Jobs |-> NotScheduled]
    /\ paused = {}
    /\ last_op = Op("init", 0, {})

NextClock ==
    \/ SchedulePendingJobs
    \/ \E j \in Jobs : RescheduleJob(j)
    \/ \E j \in Jobs : PauseJob(j)
    \/ \E j \in Jobs : ResumeJob(j)
    \/ \E e \in 1..Len(tasks) : TaskStart(e)
    \/ \E e \in 1..Len(tasks) : TaskResume(e)
    \/ \E e \in 1..Len(tasks) : TaskCancelled(e)
    \/ Tick

SpecClock == InitClock /\ [][NextClock]_vars

\* The poll loop alone with the clock: every task is dispatched by a cycle of
\* the loop.
NextPoll ==
    \/ SchedulePendingJobs
    \/ \E e \in 1..Len(tasks) : TaskStart(e)
    \/ \E e \in 1..Len(tasks) : TaskResume(e)
    \/ Tick

SpecPoll == InitClock /\ [][NextPoll]_vars

\* ------------------------------------- synchronous calls on the event loop
\* The executions that are inside a call of an adapter: pyodbc's connect and
\* execute and Dropbox's files_upload are synchronous calls made from the
\* coroutine, so the thread of the event loop is inside the call until it
\* returns.
InAdapter == {e \in 1..Len(tasks) : tasks[e].pc = "adapter"}

\* A step of the event loop: it takes a callback from its queue only when the
\* thread is not inside a call.
OnLoop(A) == InAdapter = {} /\ A

\* The first step of a scheduler task up to the call of the adapter.
AdapterCall(e) ==
    /\ tasks[e].kind = "sched" /\ tasks[e].pc = "created" /\ ~tasks[e].cancel
    /\ Len(backups) < MaxBackups
    /\ tasks' = [tasks EXCEPT ![e].pc = "adapter"]
    /\ last_op' = Op("adapter_call", tasks[e].job, {})
    /\ UNCHANGED <<now, jobvars, scheduled, paused, stopvars, loop_running, running_jobs,
                   storevars>>

\* The call returns or raises, and the step runs on to its first await or to
\* its end.
AdapterReturn(e) ==
    /\ tasks[e].pc = "adapter"
    /\ ExecFirstStep(e)

InitBlocking ==
    /\ now = 0
    /\ is_active = [j \in Jobs |-> TRUE]
    /\ next_run = [j \in Jobs |-> NoTime]
    /\ last_run = [j \in Jobs |-> NoTime]
    /\ retention_days = [j \in Jobs |-> 30]
    /\ frequency = [j \in Jobs |-> "daily"]
    /\ flaky = FALSE
    /\ db_flaky = FALSE
    /\ running_jobs = <<>>
    /\ stop_flag = FALSE
    /\ loop_running = TRUE
    /\ stop_pc = "idle"
    /\ stop_size = 0
    /\ stop_pos = 0
    /\ stop_task = 0
    /\ stop_seen = {}
    /\ tasks = <<>>
    /\ backups = <<>>
    /\ remote = {}
    /\ local = {}
    /\ scheduled = [j \in Jobs |-> NotScheduled]
    /\ paused = {}
    /\ last_op = Op("init", 0, {})

NextBlocking ==
    \/ OnLoop(SchedulePendingJobs)
    \/ \E j \in Jobs : OnLoop(PauseJob(j))
    \/ \E j \in Jobs : OnLoop(ResumeJob(j))
    \/ \E e \in 1..Len(tasks) : OnLoop(AdapterCall(e))
    \/ \E e \in 1..Len(tasks) : AdapterReturn(e)
    \/ \E e \in 1..Len(tasks) : OnLoop(TaskResume(e))
    \/ \E e \in 1..Len(tasks) : OnLoop(TaskCancelled(e))

SpecBlocking == InitBlocking /\ [][NextBlocking]_vars

\* ------------------------------------------------ the fair specification
\* The poll loop, pause, stop() and the executions under the scheduling of
\* the event loop: the sleep of start() ends, a task that is ready runs, an
\* SMTP send returns, the task stop() awaits wakes it when it is done. The
\* calls of pause_job and stop() are the caller's choice. Job 1 has no
\* next_run, the next_run of job 2 has passed.
InitLive ==
    /\ now = 0
    /\ is_active = [j \in Jobs |-> TRUE]
    /\ next_run = [j \in Jobs |-> IF j = 1 THEN NoTime ELSE 0]
    /\ last_run = [j \in Jobs |-> NoTime]
    /\ retention_days = [j \in Jobs |-> 30]
    /\ frequency = [j \in Jobs |-> "daily"]
    /\ flaky = FALSE
    /\ db_flaky = FALSE
    /\ running_jobs = <<>>
    /\ stop_flag = FALSE
    /\ loop_running = TRUE
    /\ stop_pc = "idle"
    /\ stop_size = 0
    /\ stop_pos = 0
    /\ stop_task = 0
    /\ stop_seen = {}
    /\ tasks = <<>>
    /\ backups = <<>>
    /\ remote = {}
    /\ local = {}
    /\ scheduled = [j \in Jobs |-> NotScheduled]
    /\ paused = {}
    /\ last_op = Op("init", 0, {})

NextLive ==
    \/ SchedulePendingJobs
    \/ LoopExit
    \/ \E j \in Jobs : PauseJob(j)
    \/ \E e \in 1..Len(tasks) : TaskStart(e)
    \/ \E e \in 1..Len(tasks) : TaskResume(e)
    \/ \E e \in 1..Len(tasks) : TaskCancelled(e)
    \/ StopBegin
    \/ StopResume

Fairness ==
    /\ WF_vars(SchedulePendingJobs)
    /\ WF_vars(LoopExit)
    /\ WF_vars(\E e \in 1..Len(tasks) : TaskStart(e))
    /\ WF_vars(\E e \in 1..Len(tasks) : TaskResume(e))
    /\ WF_vars(\E e \in 1..Len(tasks) : TaskCancelled(e))
    /\ WF_vars(StopResume)

SpecLive == InitLive /\ [][NextLive]_vars /\ Fairness

\* The operations on single jobs: the poll loop, reschedule_job, pause_job,
\* resume_job and the executions, for two jobs that are due.
NextFrame ==
    \/ SchedulePendingJobs
    \/ \E j \in Jobs : RescheduleJob(j)
    \/ \E j \in Jobs : PauseJob(j)
    \/ \E j \in Jobs : ResumeJob(j)
    \/ \E e \in 1..Len(tasks) : TaskStart(e)
    \/ \E e \in 1..Len(tasks) : TaskResume(e)
    \/ \E e \in 1..Len(tasks) : TaskCancelled(e)

SpecFrame == InitLive /\ [][NextFrame]_vars

\* ------------------------------------------- the store-failure specification
\* The poll loop, run-now, pause and the executions when a commit of the job
\* store may fail.
InitStore ==
    /\ now = 0
    /\ is_active = [j \in Jobs |-> TRUE]
    /\ next_run = [j \in Jobs |-> NoTime]
    /\ last_run = [j \in Jobs |-> NoTime]
    /\ retention_days = [j \in Jobs |-> 30]
    /\ frequency = [j \in Jobs |-> "daily"]
    /\ flaky = FALSE
    /\ db_flaky = TRUE
    /\ running_jobs = <<>>
    /\ stop_flag = FALSE
    /\ loop_running = TRUE
    /\ stop_pc = "idle"
    /\ stop_size = 0
    /\ stop_pos = 0
    /\ stop_task = 0
    /\ stop_seen = {}
    /\ tasks = <<>>
    /\ backups = <<>>
    /\ remote = {}
    /\ local = {}
    /\ scheduled = [j \in Jobs |-> NotScheduled]
    /\ paused = {}
    /\ last_op = Op("init", 0, {})

NextStore ==
    \/ SchedulePendingJobs
    \/ \E j \in Jobs : PauseJob(j)
    \/ \E j \in Jobs : RunNow(j)
    \/ \E j \in UnknownJobs : RunNowUnknown(j)
    \/ \E e \in 1..Len(tasks) : TaskStart(e)
    \/ \E e \in 1..Len(tasks) : TaskResume(e)
    \/ \E e \in 1..Len(tasks) : TaskCancelled(e)

SpecStore == InitStore /\ [][NextStore]_vars

\* ================================================================ claims
SchedTasks(j) == {e \in 1..Len(tasks) : tasks[e].kind = "sched" /\ tasks[e].job = j}

\* An execution that has run some of create_backup and has not finished.
Running(e) == tasks[e].pc \in Suspended

\* An execution that runs or will run: not finished, and not a task that was
\* cancelled before its first step (which never runs any of its code).
Live(e) == Alive(tasks[e]) /\ ~(tasks[e].pc = "created" /\ tasks[e].cancel)

NonTerminal(j) == {i \in JobRows(backups, j) : backups[i].status \notin Terminal}

\* C1: for every job, at most one Backup record is in a non-terminal status
\* (PENDING or IN_PROGRESS, as committed) in every reachable state.
C1_OneNonTerminalBackup == \A j \in Jobs : Cardinality(NonTerminal(j)) <= 1

\* C2: for every job, at most one execution started by the scheduler is still
\* running (neither finished nor having acknowledged its cancellation).
C2_SchedulerSingleFlight ==
    \A j \in Jobs : Cardinality({e \in SchedTasks(j) : Live(e)}) <= 1

\* C3: the Backup status never regresses: in the sequence of statuses the
\* executor assigns to a Backup, nothing but the same status follows
\* COMPLETED or FAILED.
C3_StatusNeverRegresses ==
    \A i \in 1..Len(backups) :
        \A a \in 1..Len(backups[i].log), b \in 1..Len(backups[i].log) :
            (a < b /\ backups[i].log[a] \in Terminal)
                => backups[i].log[b] = backups[i].log[a]

\* C4: when a run-now execution of a job is running, it is the only running
\* execution of that job (a second run-now, or a run-now during a scheduler
\* execution, is refused and creates no Backup).
C4_RunNowSingleFlight ==
    \A j \in Jobs :
        (\E e \in 1..Len(tasks) : tasks[e].job = j /\ tasks[e].kind = "manual" /\ Running(e))
            => Cardinality({e \in 1..Len(tasks) : tasks[e].job = j /\ Running(e)}) = 1

\* A Backup the executor has set COMPLETED: committed, or still to be
\* committed by the execution that is sending its success notification.
IsCompleted(row) ==
    \/ row.status = "completed"
    \/ row.status = "in_progress" /\ row.log[Len(row.log)] = "completed"

CompletedRows(rows, j) == {i \in JobRows(rows, j) : IsCompleted(rows[i])}

NewestCompleted(rows, j) ==
    CHOOSE i \in CompletedRows(rows, j) : \A k \in CompletedRows(rows, j) : k <= i

\* C5: a sweep of a job (here the manually triggered one) never deletes the
\* artifacts of the most recent COMPLETED backup of that job.
C5_NewestCompletedKept ==
    [][(last_op'.op = "cleanup" /\ CompletedRows(backups, last_op'.job) # {})
          => /\ NewestCompleted(backups, last_op'.job) \notin remote \ remote'
             /\ NewestCompleted(backups, last_op'.job) \notin local \ local']_vars

\* The backups a sweep of job j is to delete: COMPLETED, not the newest
\* COMPLETED one, older than the retention window.
ExpectedDeleted(rows, j) ==
    {i \in CompletedRows(rows, j) :
        /\ i # NewestCompleted(rows, j)
        /\ now - rows[i].created_at > Days(retention_days[j])}

\* C6: a sweep of a job (here the manually triggered one, with no deletion
\* failing) deletes exactly the artifacts of the COMPLETED backups of that
\* job, other than the newest COMPLETED one, that are older than the window.
C6_SweepDeletesExactly ==
    [][(last_op'.op = "cleanup" /\ last_op'.arg = {})
          => /\ remote \ remote' = ExpectedDeleted(backups, last_op'.job) \cap remote
             /\ local \ local' = ExpectedDeleted(backups, last_op'.job) \cap local]_vars

\* C7: the Backup of an execution that ended by cancellation is FAILED with a
\* cancellation-specific error.
C7_CancelledEndsFailed ==
    \A e \in 1..Len(tasks) :
        (tasks[e].pc = "cancelled" /\ tasks[e].backup # 0)
            => /\ backups[tasks[e].backup].status = "failed"
               /\ backups[tasks[e].backup].error = "cancelled"

\* C8: immediately after pause_job(j) the job is absent from running_jobs.
C8_PauseRemovesEntry ==
    last_op.op = "pause" => ~DictHas(running_jobs, last_op.job)

\* C8 witness: pause_job was called with an execution in flight that had
\* started a Backup and is still to acknowledge the cancellation.
C8_Witness ==
    /\ last_op.op = "pause"
    /\ \E e \in last_op.arg : Running(e) /\ tasks[e].cancel

\* C9: a job is absent from running_jobs only when none of its scheduler
\* executions is running and none of their Backups is non-terminal.
C9_AbsentMeansFinished ==
    \A j \in Jobs :
        ~DictHas(running_jobs, j)
            => \A e \in SchedTasks(j) :
                  /\ ~Running(e)
                  /\ tasks[e].backup # 0 => backups[tasks[e].backup].status \in Terminal

\* C10: when stop() ends, running_jobs is empty and every execution that
\* was in running_jobs when stop() was called has finished, its Backup in a
\* terminal status.
C10_StopQuiesces ==
    (last_op.op \in {"stop", "stop_step"} /\ stop_pc \in {"returned", "raised"})
        => /\ running_jobs = <<>>
           /\ \A e \in stop_seen :
                 /\ ~Alive(tasks[e])
                 /\ tasks[e].backup # 0 => backups[tasks[e].backup].status \in Terminal

\* The interval of a frequency, in minutes: 1, 7 and 30 days.
SpecInterval(f) ==
    CASE f = "daily" -> 1440 [] f = "weekly" -> 7 * 1440 [] f = "monthly" -> 30 * 1440

\* The last computation of a next run for job j found the job overdue.
Overdue(j) ==
    /\ scheduled[j].at # NoTime
    /\ scheduled[j].last # NoTime
    /\ scheduled[j].last + SpecInterval(frequency[j]) < scheduled[j].at

\* C11: when last_run is unset, or last_run + interval is in the past, the
\* computed next run is the time of the computation plus 5 minutes: later
\* than that time, and not last_run + interval.
C11_CatchUp ==
    \A j \in Jobs :
        (scheduled[j].at # NoTime /\ (scheduled[j].last = NoTime \/ Overdue(j)))
            => /\ scheduled[j].value = scheduled[j].at + 5
               /\ scheduled[j].value > scheduled[j].at
               /\ scheduled[j].last # NoTime
                     => scheduled[j].value # scheduled[j].last + SpecInterval(frequency[j])

\* C11 witness: a Daily job whose last_run was 2 days back when its next run
\* was computed.
C11_Witness ==
    \E j \in Jobs : /\ Overdue(j)
                    /\ frequency[j] = "daily"
                    /\ scheduled[j].last = scheduled[j].at - 2 * 1440

\* C12: when last_run is set and last_run + interval is not in the past, the
\* computed next run is last_run + interval (1, 7, 30 days).
C12_RegularNextRun ==
    \A j \in Jobs :
        (scheduled[j].at # NoTime /\ scheduled[j].last # NoTime /\ ~Overdue(j))
            => scheduled[j].value = scheduled[j].last + SpecInterval(frequency[j])

\* C12 witness: a Monthly job whose last_run + 30 days was still ahead when
\* its next run was computed.
C12_Witness ==
    \E j \in Jobs : /\ scheduled[j].at # NoTime
                    /\ scheduled[j].last # NoTime
                    /\ frequency[j] = "monthly"
                    /\ scheduled[j].last + 30 * 1440 > scheduled[j].at

\* The scheduler's state for job j, up to the identity of tasks: whether
\* the job has an entry, the state of the task the entry names, and the
\* executions of the job that run or will run.
SchedState(rj, ts, j) ==
    LET live == {e \in 1..Len(ts) : /\ ts[e].kind = "sched" /\ ts[e].job = j
                                    /\ Alive(ts[e])
                                    /\ ~(ts[e].pc = "created" /\ ts[e].cancel)}
    IN  [has |-> DictHas(rj, j),
         entry |-> IF DictHas(rj, j)
                   THEN <<ts[DictGet(rj, j)].pc, ts[DictGet(rj, j)].cancel>>
                   ELSE <<>>,
         count |-> Cardinality(live),
         live |-> {<<ts[e].pc, ts[e].cancel, ts[e].backup>> : e \in live}]

C14_LastRunUpdated ==
    \A i \in 1..Len(backups) :
        backups[i].status = "completed"
            => /\ last_run[backups[i].job] # NoTime
               /\ last_run[backups[i].job] >= backups[i].created_at

\* The scheduler tasks a step has created.
NewSchedTasks == {e \in (Len(tasks) + 1)..Len(tasks') : tasks'[e].kind = "sched"}

\* C15: no step creates a scheduler task for a job whose is_active is false,
\* or enters such a job in running_jobs.
C15_InactiveNeverDispatched ==
    [][/\ \A e \in NewSchedTasks : is_active[tasks'[e].job]
       /\ \A j \in Jobs :
            (~is_active[j] /\ DictHas(running_jobs', j))
                => /\ DictHas(running_jobs, j)
                   /\ DictGet(running_jobs', j) = DictGet(running_jobs, j)]_vars

\* C15 witness: reschedule_job was called for an inactive job that has no
\* entry in running_jobs.
C15_Witness ==
    /\ last_op.op = "reschedule"
    /\ ~is_active[last_op.job]
    /\ ~DictHas(running_jobs, last_op.job)

\* C16: a cycle of the poll loop creates no task for a job that was paused
\* and has not been resumed since.
C16_PausedNotDispatched ==
    [][SchedulePendingJobs => \A e \in NewSchedTasks : tasks'[e].job \notin paused]_vars

\* C17: resume_job for a job that is not paused starts no execution, adds no
\* entry to running_jobs and leaves next_run as it is.
C17_ResumeUnpausedNoEffect ==
    [][\A j \in Jobs : (j \notin paused /\ ResumeJob(j))
                            => UNCHANGED <<tasks, running_jobs, next_run>>]_vars

\* The execution e ended after the database backup or the upload had raised.
AdapterFailed(e) ==
    /\ tasks[e].pc \in Final
    /\ tasks[e].backup # 0
    /\ backups[tasks[e].backup].log[3] = "failed"

\* C18: after a failure of the database backup or of the upload, the Backup
\* is FAILED with the error message and completed_at recorded, the poll loop
\* has not been ended by it, and running_jobs no longer names the execution.
C18_AdapterFailureContained ==
    \A e \in 1..Len(tasks) :
        AdapterFailed(e)
            => /\ backups[tasks[e].backup].status = "failed"
               /\ backups[tasks[e].backup].error # "none"
               /\ backups[tasks[e].backup].completed_at # NoTime
               /\ loop_running \/ stop_flag
               /\ tasks[e].kind = "sched"
                     => ~(DictHas(running_jobs, tasks[e].job)
                            /\ DictGet(running_jobs, tasks[e].job) = e)

\* C18 witness: a scheduler execution failed in an adapter and ended, and the
\* still running poll loop has dispatched the job again.
C18_Witness ==
    \E e \in 1..Len(tasks) :
        /\ AdapterFailed(e) /\ tasks[e].kind = "sched" /\ tasks[e].pc = "done"
        /\ loop_running /\ ~stop_flag
        /\ DictHas(running_jobs, tasks[e].job)
        /\ DictGet(running_jobs, tasks[e].job) > e

\* C19: once the execution that created a Backup has ended, the Backup is
\* COMPLETED or FAILED.
C19_EndedMeansTerminal ==
    \A e \in 1..Len(tasks) :
        (tasks[e].pc \in Final /\ tasks[e].backup # 0)
            => backups[tasks[e].backup].status \in Terminal

\* C20: a step of an execution that deletes the remote artifact of a backup
\* leaves that backup in a status other than COMPLETED and FAILED.
C20_PurgedStatus ==
    [][last_op'.op # "cleanup"
          => \A i \in remote \ remote' : backups'[i].status \notin Terminal]_vars

\* C27: the stored next_run of a job is unset or not earlier than the time
\* of the last computation of the job's next run by _schedule_job.
C27_NextRunNotBeforeComputed ==
    \A j \in Jobs :
        (next_run[j] # NoTime /\ scheduled[j].at # NoTime)
            => next_run[j] >= scheduled[j].at

\* C28: a scheduler execution that is alive and that nobody has cancelled
\* keeps its entry in running_jobs: the end of another execution of the job
\* does not remove it.
C28_StaleCleanupKeepsNewer ==
    \A e \in 1..Len(tasks) :
        (tasks[e].kind = "sched" /\ Alive(tasks[e]) /\ ~tasks[e].cancel)
            => /\ DictHas(running_jobs, tasks[e].job)
               /\ DictGet(running_jobs, tasks[e].job) = e

\* C30: a step creates a scheduler task only for a job that is due: its
\* stored next_run is unset or not later than now.
C30_DispatchOnlyWhenDue ==
    [][\A e \in NewSchedTasks :
          \/ next_run[tasks'[e].job] = NoTime
          \/ next_run[tasks'[e].job] <= now]_vars

\* C21: in a sweep in which the deletion of an artifact fails, every
\* candidate whose deletions do not fail is still cleaned, and the attempt
\* that ran the sweep stays COMPLETED. For the sweep of an execution and for
\* the manually triggered one.
C21_SweepSurvivesFailure ==
    [][/\ (last_op'.op = "sweep" /\ last_op'.arg # {})
            => /\ \A i \in (AutoSweepCandidates(backups, last_op'.job) \cap remote)
                                \ last_op'.arg :
                     i \notin remote' /\ i \notin local'
               /\ Len(backups') = Len(backups) + 1
               /\ IsCompleted(backups'[Len(backups')])
       /\ (last_op'.op = "cleanup" /\ last_op'.arg # {})
            => \A i \in ManualCandidates(backups, last_op'.job) \ last_op'.arg :
                     i \notin remote' /\ i \notin local']_vars

C22_LoopSurvivesStoreFailure ==
    (last_op.op = "poll_raised" /\ ~stop_flag) => loop_running

\* The status by which the handlers of the API report an unknown id.
HTTP_404_NOT_FOUND == 404

\* C24: a manual run for an id of no job is answered with the not-found
\* error and has no effect: no Backup is created, no artifact is written or
\* deleted, no task is started.
C24_UnknownJobNotFound ==
    [][\A j \in UnknownJobs :
          RunNowUnknown(j)
              => /\ last_op'.arg = {HTTP_404_NOT_FOUND}
                 /\ UNCHANGED <<backups, remote, local, tasks, running_jobs>>]_vars

\* C26: while an execution is inside a call of an adapter, the poll loop can
\* run a cycle it would otherwise run, and the executions of the other jobs
\* can take the steps they would otherwise take.
C26_AdapterCallStallsNothing ==
    \A e \in InAdapter :
        /\ ENABLED SchedulePendingJobs => ENABLED OnLoop(SchedulePendingJobs)
        /\ \A x \in 1..Len(tasks) :
              tasks[x].job # tasks[e].job
                  => /\ ENABLED TaskResume(x) => ENABLED OnLoop(TaskResume(x))
                     /\ ENABLED AdapterCall(x) => ENABLED OnLoop(AdapterCall(x))

\* The poll loop can run a cycle that dispatches job j: the loop is running,
\* stop() was not called, job j is active with next_run unset or passed and
\* has no entry in running_jobs, and the bound on executions leaves room.
Dispatchable(j) ==
    /\ loop_running /\ ~stop_flag
    /\ is_active[j] /\ (next_run[j] = NoTime \/ next_run[j] <= now)
    /\ ~DictHas(running_jobs, j)
    /\ Len(tasks) + Cardinality({k \in Jobs : /\ is_active[k]
                                              /\ next_run[k] = NoTime \/ next_run[k] <= now
                                              /\ ~DictHas(running_jobs, k)}) <= MaxExec

\* C25: with the loop running and the store available, an active job whose
\* next_run is unset or has passed and that is not in flight is eventually
\* in running_jobs, and every poll cycle creates a task for each such job
\* and enters it in running_jobs.
C25_DueEventuallyDispatched ==
    /\ \A j \in Jobs : Dispatchable(j) ~> (DictHas(running_jobs, j) \/ stop_flag)
    /\ [][SchedulePendingJobs
            => \A j \in Jobs :
                  Dispatchable(j)
                      => /\ DictHas(running_jobs', j)
                         /\ DictGet(running_jobs', j) \in NewSchedTasks]_vars

\* C25 witness: a poll cycle has dispatched job 2, whose next_run had passed.
C25_Witness ==
    /\ next_run[2] # NoTime /\ next_run[2] <= now
    /\ scheduled[2].at # NoTime
    /\ DictHas(running_jobs, 2)
    /\ tasks[DictGet(running_jobs, 2)].pc = "created"

\* The entry of job j in running_jobs names an execution that has ended.
StaleEntry(j) ==
    /\ DictHas(running_jobs, j)
    /\ ~Alive(tasks[DictGet(running_jobs, j)])

\* C29: an entry of running_jobs whose execution has ended, in whatever
\* way, is eventually removed.
C29_EndedEntryRemoved ==
    \A j \in Jobs : StaleEntry(j) ~> ~StaleEntry(j)

\* C31: when a poll cycle dispatches a job whose previous dispatch led to a
\* COMPLETED Backup, at least the interval of the job's frequency lies between
\* the two dispatches.
C31_FrequencySpacing ==
    [][SchedulePendingJobs
          => \A e \in NewSchedTasks :
                LET j == tasks'[e].job
                IN  (/\ scheduled[j].at # NoTime
                     /\ \E i \in JobRows(backups, j) :
                           /\ backups[i].status = "completed"
                           /\ backups[i].created_at >= scheduled[j].at)
                        => now - scheduled[j].at >= SpecInterval(frequency[j])]_vars

\* The Backups whose attempt has ended: those of no execution that is alive.
EndedRows ==
    {i \in 1..Len(backups) : \A e \in 1..Len(tasks) : tasks[e].backup = i => ~Alive(tasks[e])}

\* C32: an attempt that ended COMPLETED called the success notification once
\* and the failure notification never; one that ended FAILED called the
\* failure notification once and the success notification never.
C32_NotifiedExactlyOnce ==
    \A i \in EndedRows :
        /\ backups[i].status = "completed"
              => backups[i].sent_ok = 1 /\ backups[i].sent_fail = 0
        /\ backups[i].status = "failed"
              => backups[i].sent_fail = 1 /\ backups[i].sent_ok = 0

\* C33: in every state of the store a Backup has its creation time; a
\* COMPLETED one has its paths and size, its completed_at and no error
\* message; a FAILED one has an error message and its completed_at; a PENDING
\* or IN_PROGRESS one has no completed_at.
C33_RecordConsistency ==
    \A i \in 1..Len(backups) :
        /\ backups[i].created_at # NoTime
        /\ backups[i].status = "completed"
              => /\ backups[i].paths
                 /\ backups[i].completed_at # NoTime
                 /\ backups[i].error = "none"
        /\ backups[i].status = "failed"
              => /\ backups[i].error # "none"
                 /\ backups[i].completed_at # NoTime
        /\ backups[i].status \in {"pending", "in_progress"}
              => backups[i].completed_at = NoTime

\* C33 witness: the store holds a COMPLETED Backup of an execution that was
\* cancelled while it sent the success notification, and a FAILED Backup
\* whose attempt had uploaded its artifact.
C33_Witness ==
    /\ \E e \in 1..Len(tasks) :
          /\ tasks[e].pc = "cancelled" /\ tasks[e].backup # 0
          /\ backups[tasks[e].backup].status = "completed"
    /\ \E i \in 1..Len(backups) : backups[i].status = "failed" /\ backups[i].paths

\* C34: the remote artifact of an attempt that has ended is referenced by
\* the paths of its Backup, and the Backup is COMPLETED, the status the sweep
\* of an execution selects.
C34_UploadedArtifactReachable ==
    \A i \in EndedRows :
        i \in remote => backups[i].paths /\ backups[i].status = "completed"

\* C35: in a sweep, a candidate whose remote deletion fails keeps its local
\* artifact and its record, and is a candidate of the next sweep; a candidate
\* that was cleaned is no candidate of the next sweep. For the sweep of an
\* execution and for the manually triggered one.
C35_RetentionResumable ==
    [][/\ last_op'.op = "sweep"
            => /\ \A i \in last_op'.arg \cap remote :
                     /\ i \in remote' /\ (i \in local => i \in local')
                     /\ backups'[i] = backups[i]
                     /\ i \in AutoSweepCandidates(backups', last_op'.job)
               /\ \A i \in remote \ remote' :
                     i \notin AutoSweepCandidates(backups', last_op'.job)
       /\ last_op'.op = "cleanup"
            => /\ \A i \in last_op'.arg \cap remote :
                     /\ i \in remote' /\ (i \in local => i \in local')
                     /\ i \in ManualCandidates(backups', last_op'.job)
               /\ \A i \in remote \ remote' :
                     i \notin ManualCandidates(backups', last_op'.job)]_vars

\* C36: on the same Backups of a job at the same time, with no deletion
\* failing, the sweep of an execution and the manually triggered cleanup
\* delete the same remote artifacts and the same local artifacts (neither
\* changes a record).
C36_SweepsEquivalent ==
    \A j \in Jobs :
        /\ remote \ AutoSweepDeleted(backups, j, {})
              = remote \ ManualRemoteDeleted(backups, j, {}, 0)
        /\ local \ AutoSweepDeleted(backups, j, {})
              = local \ ManualLocalDeleted(backups, j, 0)

\* C37: once stop() has set stop_flag no step creates a scheduler task (the
\* poll loop is the only dispatcher here), and the poll loop ends.
C37_NoDispatchAfterStop ==
    /\ [][stop_flag => NewSchedTasks = {}]_vars
    /\ stop_flag ~> ~loop_running

\* C37 witness: stop() has returned and the loop has ended while a job that
\* an execution ran for is due again and not in flight.
C37_Witness ==
    /\ stop_flag /\ ~loop_running /\ stop_pc = "returned"
    /\ \E j \in DueJobs : /\ ~DictHas(running_jobs, j)
                          /\ \E e \in SchedTasks(j) : tasks[e].pc = "done"

\* A step leaves job b untouched: its entry in running_jobs, its executions,
\* its next_run and last_run, its Backups and their artifacts.
Untouched(b) ==
    /\ DictHas(running_jobs', b) = DictHas(running_jobs, b)
    /\ DictHas(running_jobs, b) => DictGet(running_jobs', b) = DictGet(running_jobs, b)
    /\ \A e \in 1..Len(tasks) : tasks[e].job = b => tasks'[e] = tasks[e]
    /\ \A e \in (Len(tasks) + 1)..Len(tasks') : tasks'[e].job # b
    /\ next_run'[b] = next_run[b] /\ last_run'[b] = last_run[b]
    /\ JobRows(backups', b) = JobRows(backups, b)
    /\ \A i \in JobRows(backups, b) :
          /\ backups'[i] = backups[i]
          /\ (i \in remote') = (i \in remote) /\ (i \in local') = (i \in local)

\* A step of job a: reschedule_job, pause_job or resume_job called for it,
\* or a step of one of its executions.
StepOf(a) ==
    \/ RescheduleJob(a) \/ PauseJob(a) \/ ResumeJob(a)
    \/ \E e \in 1..Len(tasks) :
          tasks[e].job = a /\ (TaskStart(e) \/ TaskResume(e) \/ TaskCancelled(e))

\* C38: a step of job a leaves every other job untouched, and a poll cycle
\* leaves untouched every job it does not dispatch.
C38_OtherJobsUntouched ==
    [][/\ \A a \in Jobs : StepOf(a) => \A b \in Jobs \ {a} : Untouched(b)
       /\ SchedulePendingJobs
            => \A b \in Jobs : (b \notin DueJobs \/ DictHas(running_jobs, b))
                                  => Untouched(b)]_vars

\* C38 witness: the execution of one job has ended and removed its entry
\* while the execution of another job, dispatched before, is in running_jobs
\* and sends its notification.
C38_Witness ==
    \E a \in Jobs, b \in Jobs :
        /\ a # b
        /\ ~DictHas(running_jobs, a) /\ \E e \in SchedTasks(a) : tasks[e].pc = "done"
        /\ DictHas(running_jobs, b)
        /\ DictGet(running_jobs, b) < Len(tasks) + 1
        /\ tasks[DictGet(running_jobs, b)].pc \in Suspended
====
